---- MODULE Spec2Model ----
(***************************************************************************)
(* Model of Amazon-Braket-MaximumCut.ipynb: a 5-node graph is built, the   *)
(* MaxCut QUBO dictionary Q is filled by a loop over the edges, Q is sent  *)
(* to the remote D-Wave sampler, the returned samples are printed as a     *)
(* table and the lowest-energy sample is drawn and saved as a picture.     *)
(***************************************************************************)
EXTENDS Integers, Sequences, FiniteSets, TLC

VARIABLES pc, G, pos, shown, Q, ei, qIters, qUpdates, calls, sentQ,
          response, energies, li, E, printed, lut, S0, S1,
          cut_edges, uncut_edges, drawn, saved, displayed

vars == <<pc, G, pos, shown, Q, ei, qIters, qUpdates, calls, sentQ,
          response, energies, li, E, printed, lut, S0, S1,
          cut_edges, uncut_edges, drawn, saved, displayed>>

(* ---------------- bounds ---------------- *)

\* largest number of rows in a response of the sampler that is explored
MaxSamples == 2

\* the same, for the runs that are checked for progress
MaxLiveSamples == 1

(* ---------------- program constants ---------------- *)

\* num_reads handed to the sampler
numruns == 10

\* variant: the last edge is typed (2,5) instead of (4,5)
EdgeList_Bipartite == << <<1,2>>, <<1,3>>, <<2,4>>, <<3,4>>, <<3,5>>, <<2,5>> >>

\* variant: the last edge (4,5) is left out
EdgeList_NoEdge45 == << <<1,2>>, <<1,3>>, <<2,4>>, <<3,4>>, <<3,5>> >>

\* the edge literal handed to G.add_edges_from
EdgeList == << <<1,2>>, <<1,3>>, <<2,4>>, <<3,4>>, <<3,5>>, <<4,5>> >>

filename == "maxcut_plot.png"

(* ---------------- generic helpers ---------------- *)

Range(s) == {s[i] : i \in 1..Len(s)}

Min(a, b) == IF a <= b THEN a ELSE b

RECURSIVE SumOver(_, _)
\* sum of f[k] over the keys k of the set S
\* (one key is picked and bound as a value, then the rest is summed)
SumOver(S, f) ==
  IF S = {} THEN 0
  ELSE CHOOSE r \in {f[k] + SumOver(S \ {k}, f) :
                       k \in {CHOOSE kk \in S : TRUE}} : TRUE

(* ---------------- networkx Graph ---------------- *)

\* nx.Graph(): no node, no adjacency
EmptyGraph == [nodes |-> <<>>, adj |-> [n \in {} |-> <<>>]]

\* a node new to the graph is appended to the node order with no neighbour
AddNode(g, n) ==
  IF n \in DOMAIN g.adj THEN g
  ELSE [nodes |-> Append(g.nodes, n), adj |-> g.adj @@ (n :> <<>>)]

\* adj[u][v] = datadict: a key already present keeps its place
AddNbr(adj, u, v) ==
  IF v \in Range(adj[u]) THEN adj
  ELSE [adj EXCEPT ![u] = Append(adj[u], v)]

AddEdge(g, u, v) ==
  LET g1 == AddNode(AddNode(g, u), v)
  IN  [nodes |-> g1.nodes, adj |-> AddNbr(AddNbr(g1.adj, u, v), v, u)]

RECURSIVE AddEdgesFrom(_, _)
\* G.add_edges_from(ebunch): the edges are added one after the other
\* (the graph with the first edge added is bound as a value, then the rest)
AddEdgesFrom(g, es) ==
  IF es = <<>> THEN g
  ELSE CHOOSE r \in {AddEdgesFrom(h, Tail(es)) :
                       h \in {AddEdge(g, Head(es)[1], Head(es)[2])}} : TRUE

RECURSIVE EdgesFrom_NoSeen(_, _)
\* variant: neighbours already seen as a node are not skipped
EdgesFrom_NoSeen(g, i) ==
  IF i > Len(g.nodes) THEN <<>>
  ELSE LET n  == g.nodes[i]
           nb == g.adj[n]
       IN  [j \in 1..Len(nb) |-> <<n, nb[j]>>] \o EdgesFrom_NoSeen(g, i + 1)

RECURSIVE EdgesFrom(_, _)
\* G.edges: every node in node order, every neighbour not yet seen as a node
EdgesFrom(g, i) ==
  IF i > Len(g.nodes) THEN <<>>
  ELSE LET n    == g.nodes[i]
           seen == {g.nodes[j] : j \in 1..(i-1)}
           nb   == SelectSeq(g.adj[n], LAMBDA m : m \notin seen)
       IN  [j \in 1..Len(nb) |-> <<n, nb[j]>>] \o EdgesFrom(g, i + 1)

Edges(g) == EdgesFrom(g, 1)

Nodes(g) == g.nodes

(* ---------------- the QUBO dictionary ---------------- *)

\* defaultdict(int)
EmptyQ == [k \in {} |-> 0]

\* reading a missing key of a defaultdict(int) gives 0
QGet(q, k) == IF k \in DOMAIN q THEN q[k] ELSE 0

\* Q[k] += d
QAdd(q, k, d) ==
  [kk \in (DOMAIN q) \cup {k} |-> IF kk = k THEN QGet(q, k) + d ELSE q[kk]]

\* variant: the coupling is raised by 1 instead of 2
QUpdate_Off1(q, u, v) ==
  QAdd(QAdd(QAdd(q, <<u, u>>, -1), <<v, v>>, -1), <<u, v>>, 1)

\* variant: the coupling is raised by 4 and each diagonal lowered by 2
QUpdate_W2(q, u, v) ==
  QAdd(QAdd(QAdd(q, <<u, u>>, -2), <<v, v>>, -2), <<u, v>>, 4)

\* variant: the update of Q[(v,v)] is missing
QUpdate_NoV(q, u, v) ==
  QAdd(QAdd(q, <<u, u>>, -1), <<u, v>>, 2)

\* variant: the coupling is split over both orientations of the edge
QUpdate_Sym(q, u, v) ==
  QAdd(QAdd(QAdd(QAdd(q, <<u, u>>, -1), <<v, v>>, -1), <<u, v>>, 1), <<v, u>>, 1)

\* the body of the edge loop: three updates for the edge (u, v)
QUpdate(q, u, v) ==
  QAdd(QAdd(QAdd(q, <<u, u>>, -1), <<v, v>>, -1), <<u, v>>, 2)

\* the variables of the problem: every index that occurs in a key of Q
Variables(q) == {k[1] : k \in DOMAIN q} \cup {k[2] : k \in DOMAIN q}

\* the QUBO energy of the assignment x: sum of Q[(i,j)] * x[i] * x[j]
Energy(q, x) ==
  SumOver(DOMAIN q, [k \in DOMAIN q |-> q[k] * x[k[1]] * x[k[2]]])

\* int(-1*E): E is a whole number, truncation leaves it as it is
CutSizeOf(e) == -1 * e

(* ---------------- the sampler's response ---------------- *)

Assignments(q) == [Variables(q) -> {0, 1}]

\* a row of the response: the sample and its energy under the Q sent
Row(q, x) == [sample |-> x, energy |-> Energy(q, x)]

\* the responses of up to max rows, never more than numruns (num_reads)
Responses(q, max) ==
  UNION {[1..n -> {Row(q, x) : x \in Assignments(q)}] :
           n \in 0..Min(max, numruns)}

\* the place of row i when the rows are put in order of increasing energy,
\* rows of equal energy staying in record order
Place(resp, i) ==
  1 + Cardinality({j \in 1..Len(resp) :
        \/ resp[j].energy < resp[i].energy
        \/ resp[j].energy = resp[i].energy /\ j < i})

\* iteration over a SampleSet and over its data(): sorted by energy
Sorted(resp) ==
  [p \in 1..Len(resp) |-> resp[CHOOSE i \in 1..Len(resp) : Place(resp, i) = p]]

\* variant: the comparison is the wrong way round
Lowest_Highest(resp) ==
  SelectSeq(resp, LAMBDA r : \A j \in 1..Len(resp) : r.energy >= resp[j].energy)

\* response.lowest(): the rows whose energy is the least one
Lowest(resp) ==
  SelectSeq(resp, LAMBDA r : \A j \in 1..Len(resp) : r.energy <= resp[j].energy)

\* .first: the first row in order of energy
First(resp) == Sorted(resp)[1]

(* ---------------- interpretation of a sample ---------------- *)

\* variant: both lists are filled by the test for label 1
NodesWith_One(g, x, b) == SelectSeq(Nodes(g), LAMBDA n : x[n] = 1)

\* [node for node in G.nodes if lut[node]] (b = 1) or if not lut[node] (b = 0)
NodesWith(g, x, b) == SelectSeq(Nodes(g), LAMBDA n : x[n] = b)

\* the members of a set of node indices in increasing order
Ascending(S) ==
  [i \in 1..Cardinality(S) |->
     CHOOSE n \in S : Cardinality({k \in S : k < n}) = i - 1]

\* [k for k, v in line.items() if v == b]: the keys of a sample whose value is b
KeysWith(x, b) == SelectSeq(Ascending(DOMAIN x), LAMBDA n : x[n] = b)

\* [(u, v) for u, v in G.edges if lut[u] != lut[v]]
CutEdges(g, x) == SelectSeq(Edges(g), LAMBDA e : x[e[1]] # x[e[2]])

\* variant: the test is the one of cut_edges
UncutEdges_Ne(g, x) == SelectSeq(Edges(g), LAMBDA e : x[e[1]] # x[e[2]])

\* [(u, v) for u, v in G.edges if lut[u] == lut[v]]
UncutEdges(g, x) == SelectSeq(Edges(g), LAMBDA e : x[e[1]] = x[e[2]])

(* ---------------- initial state ---------------- *)

Init ==
  /\ pc = "start"
  /\ G = EmptyGraph
  /\ pos = 0
  /\ shown = <<>>
  /\ Q = EmptyQ
  /\ ei = 1
  /\ qIters = 0
  /\ qUpdates = 0
  /\ calls = 0
  /\ sentQ = EmptyQ
  /\ response = <<>>
  /\ energies = 1
  /\ li = 1
  /\ E = 0
  /\ printed = <<>>
  /\ lut = <<>>
  /\ S0 = <<>>
  /\ S1 = <<>>
  /\ cut_edges = <<>>
  /\ uncut_edges = <<>>
  /\ drawn = <<>>
  /\ saved = <<>>
  /\ displayed = FALSE

(* ---------------- set-up cell ---------------- *)

\* G = nx.Graph()
CreateGraph ==
  /\ pc = "start"
  /\ G' = EmptyGraph
  /\ pc' = "add_edges"
  /\ UNCHANGED <<pos, shown, Q, ei, qIters, qUpdates, calls, sentQ, response,
                 energies, li, E, printed, lut, S0, S1, cut_edges, uncut_edges,
                 drawn, saved, displayed>>

\* G.add_edges_from([...])
AddEdges ==
  /\ pc = "add_edges"
  /\ G' = AddEdgesFrom(G, EdgeList)
  /\ pc' = "plot_graph"
  /\ UNCHANGED <<pos, shown, Q, ei, qIters, qUpdates, calls, sentQ, response,
                 energies, li, E, printed, lut, S0, S1, cut_edges, uncut_edges,
                 drawn, saved, displayed>>

\* pos = nx.spring_layout(G); get_graph(G, pos): the input graph is shown
PlotGraph ==
  /\ pc = "plot_graph"
  /\ pos' = pos + 1
  /\ shown' = <<[kind |-> "nodes", items |-> Nodes(G)],
                [kind |-> "edges", items |-> Edges(G)],
                [kind |-> "labels", items |-> Nodes(G)]>>
  /\ pc' = "init_Q"
  /\ UNCHANGED <<G, Q, ei, qIters, qUpdates, calls, sentQ, response,
                 energies, li, E, printed, lut, S0, S1, cut_edges, uncut_edges,
                 drawn, saved, displayed>>

\* Q = defaultdict(int)
InitQ ==
  /\ pc = "init_Q"
  /\ Q' = EmptyQ
  /\ ei' = 1
  /\ pc' = "q_loop"
  /\ UNCHANGED <<G, pos, shown, qIters, qUpdates, calls, sentQ, response,
                 energies, li, E, printed, lut, S0, S1, cut_edges, uncut_edges,
                 drawn, saved, displayed>>

\* variant: the iterator is advanced twice per iteration
QLoopStep_Skip ==
  /\ pc = "q_loop"
  /\ ei <= Len(Edges(G))
  /\ LET u == Edges(G)[ei][1]
         v == Edges(G)[ei][2]
     IN  Q' = QUpdate(Q, u, v)
  /\ ei' = ei + 2
  /\ qIters' = qIters + 1
  /\ qUpdates' = qUpdates + 3
  /\ UNCHANGED <<pc, G, pos, shown, calls, sentQ, response,
                 energies, li, E, printed, lut, S0, S1, cut_edges, uncut_edges,
                 drawn, saved, displayed>>

\* one iteration of: for u, v in G.edges
QLoopStep ==
  /\ pc = "q_loop"
  /\ ei <= Len(Edges(G))
  /\ LET u == Edges(G)[ei][1]
         v == Edges(G)[ei][2]
     IN  Q' = QUpdate(Q, u, v)
  /\ ei' = ei + 1
  /\ qIters' = qIters + 1
  /\ qUpdates' = qUpdates + 3
  /\ UNCHANGED <<pc, G, pos, shown, calls, sentQ, response,
                 energies, li, E, printed, lut, S0, S1, cut_edges, uncut_edges,
                 drawn, saved, displayed>>

\* variant: the loop is left after any number of iterations
QLoopExit_Early ==
  /\ pc = "q_loop"
  /\ pc' = "sample"
  /\ UNCHANGED <<G, pos, shown, Q, ei, qIters, qUpdates, calls, sentQ, response,
                 energies, li, E, printed, lut, S0, S1, cut_edges, uncut_edges,
                 drawn, saved, displayed>>

\* the edge iterator is exhausted: the cell ends
QLoopExit ==
  /\ pc = "q_loop"
  /\ ei > Len(Edges(G))
  /\ pc' = "sample"
  /\ UNCHANGED <<G, pos, shown, Q, ei, qIters, qUpdates, calls, sentQ, response,
                 energies, li, E, printed, lut, S0, S1, cut_edges, uncut_edges,
                 drawn, saved, displayed>>

(* ---------------- solving cell ---------------- *)

\* response = sampler.sample_qubo(Q, ...); energies = iter(response.data())
SampleQubo(max) ==
  /\ pc = "sample"
  /\ response' \in Responses(Q, max)
  /\ sentQ' = Q
  /\ calls' = calls + 1
  /\ energies' = 1
  /\ pc' = "print_header"
  /\ UNCHANGED <<G, pos, shown, Q, ei, qIters, qUpdates,
                 li, E, printed, lut, S0, S1, cut_edges, uncut_edges,
                 drawn, saved, displayed>>

\* the sampler answers with up to MaxSamples rows
Sample == SampleQubo(MaxSamples)

\* the sampler answers with up to MaxLiveSamples rows
SampleShort == SampleQubo(MaxLiveSamples)

\* variant: a failed call is made again (up to three calls)
SampleFails_Retry ==
  /\ pc = "sample"
  /\ calls < 3
  /\ sentQ' = Q
  /\ calls' = calls + 1
  /\ pc' = "sample"
  /\ UNCHANGED <<G, pos, shown, Q, ei, qIters, qUpdates, response,
                 energies, li, E, printed, lut, S0, S1, cut_edges, uncut_edges,
                 drawn, saved, displayed>>

\* the call to the remote sampler raises: nothing catches it, the run stops
SampleFails ==
  /\ pc = "sample"
  /\ sentQ' = Q
  /\ calls' = calls + 1
  /\ pc' = "sample_failed"
  /\ UNCHANGED <<G, pos, shown, Q, ei, qIters, qUpdates, response,
                 energies, li, E, printed, lut, S0, S1, cut_edges, uncut_edges,
                 drawn, saved, displayed>>

\* the three header lines of the table
PrintHeader ==
  /\ pc = "print_header"
  /\ printed' = printed \o <<[kind |-> "rule"], [kind |-> "header"], [kind |-> "rule"]>>
  /\ li' = 1
  /\ pc' = "rows"
  /\ UNCHANGED <<G, pos, shown, Q, ei, qIters, qUpdates, calls, sentQ, response,
                 energies, E, lut, S0, S1, cut_edges, uncut_edges,
                 drawn, saved, displayed>>

\* variant: the energies are read in record order, not in order of energy
PrintRow_RawEnergies ==
  /\ pc = "rows"
  /\ li <= Len(response)
  /\ LET line == Sorted(response)[li].sample
         e    == response[energies].energy
     IN  /\ S0' = KeysWith(line, 0)
         /\ S1' = KeysWith(line, 1)
         /\ E' = e
         /\ printed' = Append(printed,
               [kind |-> "row", S0 |-> KeysWith(line, 0), S1 |-> KeysWith(line, 1),
                E |-> e, cut |-> CutSizeOf(e)])
  /\ energies' = energies + 1
  /\ li' = li + 1
  /\ UNCHANGED <<pc, G, pos, shown, Q, ei, qIters, qUpdates, calls, sentQ, response,
                 lut, cut_edges, uncut_edges, drawn, saved, displayed>>

\* one iteration of: for line in response
PrintRow ==
  /\ pc = "rows"
  /\ li <= Len(response)
  /\ LET line == Sorted(response)[li].sample
         e    == Sorted(response)[energies].energy
     IN  /\ S0' = KeysWith(line, 0)
         /\ S1' = KeysWith(line, 1)
         /\ E' = e
         /\ printed' = Append(printed,
               [kind |-> "row", S0 |-> KeysWith(line, 0), S1 |-> KeysWith(line, 1),
                E |-> e, cut |-> CutSizeOf(e)])
  /\ energies' = energies + 1
  /\ li' = li + 1
  /\ UNCHANGED <<pc, G, pos, shown, Q, ei, qIters, qUpdates, calls, sentQ, response,
                 lut, cut_edges, uncut_edges, drawn, saved, displayed>>

\* every row has been printed
RowsExit ==
  /\ pc = "rows"
  /\ li > Len(response)
  /\ pc' = "grab_best"
  /\ UNCHANGED <<G, pos, shown, Q, ei, qIters, qUpdates, calls, sentQ, response,
                 energies, li, E, printed, lut, S0, S1, cut_edges, uncut_edges,
                 drawn, saved, displayed>>

\* lut = response.lowest().first.sample
GrabBest ==
  /\ pc = "grab_best"
  /\ Len(response) > 0
  /\ lut' = First(Lowest(response)).sample
  /\ pc' = "interpret"
  /\ UNCHANGED <<G, pos, shown, Q, ei, qIters, qUpdates, calls, sentQ, response,
                 energies, li, E, printed, S0, S1, cut_edges, uncut_edges,
                 drawn, saved, displayed>>

\* .first of an empty response raises: the run stops
GrabBestFails ==
  /\ pc = "grab_best"
  /\ Len(response) = 0
  /\ pc' = "first_failed"
  /\ UNCHANGED <<G, pos, shown, Q, ei, qIters, qUpdates, calls, sentQ, response,
                 energies, li, E, printed, lut, S0, S1, cut_edges, uncut_edges,
                 drawn, saved, displayed>>

\* S0, S1, cut_edges, uncut_edges of the best result
Interpret ==
  /\ pc = "interpret"
  /\ S0' = NodesWith(G, lut, 0)
  /\ S1' = NodesWith(G, lut, 1)
  /\ cut_edges' = CutEdges(G, lut)
  /\ uncut_edges' = UncutEdges(G, lut)
  /\ pc' = "layout"
  /\ UNCHANGED <<G, pos, shown, Q, ei, qIters, qUpdates, calls, sentQ, response,
                 energies, li, E, printed, lut, drawn, saved, displayed>>

\* pos = nx.spring_layout(G)
Layout ==
  /\ pc = "layout"
  /\ pos' = pos + 1
  /\ pc' = "draw_S0"
  /\ UNCHANGED <<G, shown, Q, ei, qIters, qUpdates, calls, sentQ, response,
                 energies, li, E, printed, lut, S0, S1, cut_edges, uncut_edges,
                 drawn, saved, displayed>>

\* nx.draw_networkx_nodes(G, pos, nodelist=S0, node_color='r')
DrawS0 ==
  /\ pc = "draw_S0"
  /\ drawn' = Append(drawn, [kind |-> "nodes", items |-> S0, style |-> "r"])
  /\ pc' = "draw_S1"
  /\ UNCHANGED <<G, pos, shown, Q, ei, qIters, qUpdates, calls, sentQ, response,
                 energies, li, E, printed, lut, S0, S1, cut_edges, uncut_edges,
                 saved, displayed>>

\* nx.draw_networkx_nodes(G, pos, nodelist=S1, node_color='c')
DrawS1 ==
  /\ pc = "draw_S1"
  /\ drawn' = Append(drawn, [kind |-> "nodes", items |-> S1, style |-> "c"])
  /\ pc' = "draw_cut"
  /\ UNCHANGED <<G, pos, shown, Q, ei, qIters, qUpdates, calls, sentQ, response,
                 energies, li, E, printed, lut, S0, S1, cut_edges, uncut_edges,
                 saved, displayed>>

\* nx.draw_networkx_edges(G, pos, edgelist=cut_edges, style='dashdot', ...)
DrawCut ==
  /\ pc = "draw_cut"
  /\ drawn' = Append(drawn, [kind |-> "edges", items |-> cut_edges, style |-> "dashdot"])
  /\ pc' = "draw_uncut"
  /\ UNCHANGED <<G, pos, shown, Q, ei, qIters, qUpdates, calls, sentQ, response,
                 energies, li, E, printed, lut, S0, S1, cut_edges, uncut_edges,
                 saved, displayed>>

\* nx.draw_networkx_edges(G, pos, edgelist=uncut_edges, style='solid', ...)
DrawUncut ==
  /\ pc = "draw_uncut"
  /\ drawn' = Append(drawn, [kind |-> "edges", items |-> uncut_edges, style |-> "solid"])
  /\ pc' = "draw_labels"
  /\ UNCHANGED <<G, pos, shown, Q, ei, qIters, qUpdates, calls, sentQ, response,
                 energies, li, E, printed, lut, S0, S1, cut_edges, uncut_edges,
                 saved, displayed>>

\* nx.draw_networkx_labels(G, pos)
DrawLabels ==
  /\ pc = "draw_labels"
  /\ drawn' = Append(drawn, [kind |-> "labels", items |-> Nodes(G), style |-> "label"])
  /\ pc' = "savefig"
  /\ UNCHANGED <<G, pos, shown, Q, ei, qIters, qUpdates, calls, sentQ, response,
                 energies, li, E, printed, lut, S0, S1, cut_edges, uncut_edges,
                 saved, displayed>>

\* variant: the figure is saved after it has been cleared
SaveFig_Blank ==
  /\ pc = "savefig"
  /\ saved' = Append(saved, [name |-> filename, content |-> <<>>])
  /\ pc' = "print_saved"
  /\ UNCHANGED <<G, pos, shown, Q, ei, qIters, qUpdates, calls, sentQ, response,
                 energies, li, E, printed, lut, S0, S1, cut_edges, uncut_edges,
                 drawn, displayed>>

\* plt.savefig(filename, bbox_inches='tight'): the figure as drawn so far
SaveFig ==
  /\ pc = "savefig"
  /\ saved' = Append(saved, [name |-> filename, content |-> drawn])
  /\ pc' = "print_saved"
  /\ UNCHANGED <<G, pos, shown, Q, ei, qIters, qUpdates, calls, sentQ, response,
                 energies, li, E, printed, lut, S0, S1, cut_edges, uncut_edges,
                 drawn, displayed>>

\* print("\nYour plot is saved to {}".format(filename))
PrintSaved ==
  /\ pc = "print_saved"
  /\ printed' = Append(printed, [kind |-> "saved", name |-> filename])
  /\ pc' = "show"
  /\ UNCHANGED <<G, pos, shown, Q, ei, qIters, qUpdates, calls, sentQ, response,
                 energies, li, E, lut, S0, S1, cut_edges, uncut_edges,
                 drawn, saved, displayed>>

\* end of the cell: the inline backend shows the figure
ShowFigure ==
  /\ pc = "show"
  /\ displayed' = TRUE
  /\ pc' = "done"
  /\ UNCHANGED <<G, pos, shown, Q, ei, qIters, qUpdates, calls, sentQ, response,
                 energies, li, E, printed, lut, S0, S1, cut_edges, uncut_edges,
                 drawn, saved>>

\* every step but the answer of the sampler
Steps ==
  \/ CreateGraph \/ AddEdges \/ PlotGraph \/ InitQ \/ QLoopStep \/ QLoopExit
  \/ SampleFails \/ PrintHeader \/ PrintRow \/ RowsExit
  \/ GrabBest \/ GrabBestFails \/ Interpret \/ Layout
  \/ DrawS0 \/ DrawS1 \/ DrawCut \/ DrawUncut \/ DrawLabels
  \/ SaveFig \/ PrintSaved \/ ShowFigure

Next == Steps \/ Sample

Spec == Init /\ [][Next]_vars

NextLive == Steps \/ SampleShort

\* a cell runs its statements one after the other until it ends or raises:
\* a statement that can run does run
LiveSpec == Init /\ [][NextLive]_vars /\ WF_vars(NextLive)

(* ======================= properties ======================= *)

\* the steps at which the graph is not yet constructed
PreGraph == {"start", "add_edges"}

\* the steps at which the edge loop has not yet finished
PreQ == PreGraph \cup {"plot_graph", "init_Q", "q_loop"}

\* the steps at which the best result has been grabbed
PostGrab == {"interpret", "layout", "draw_S0", "draw_S1", "draw_cut",
             "draw_uncut", "draw_labels", "savefig", "print_saved", "show", "done"}

\* the steps at which the best result has been interpreted
PostInterpret == PostGrab \ {"interpret"}

\* every assignment of a label to each node of g
Labelings(g) == [Range(Nodes(g)) -> {0, 1}]

\* the positions in the edge list es of the edges whose endpoints differ in x
CrossingIn(es, x) == {i \in 1..Len(es) : x[es[i][1]] # x[es[i][2]]}

\* the positions in the edge list of g of the edges whose endpoints differ in x
Crossing(g, x) == CrossingIn(Edges(g), x)

\* the number of edges of g cut by x
CutCount(g, x) == Cardinality(Crossing(g, x))

\* 1 - x[n] for every node n
Complement(x) == [n \in DOMAIN x |-> 1 - x[n]]

\* x with the label of node n flipped
Flip(x, n) == [x EXCEPT ![n] = 1 - x[n]]

\* the rows of the table printed so far
PrintedRows == SelectSeq(printed, LAMBDA r : r.kind = "row")

\* C1: once the edge loop has finished, the QUBO energy of every assignment
\* of {0,1} to the nodes is minus the number of edges whose endpoints have
\* different labels, so the printed Cut Size int(-1*E) is the cut size of
\* the assignment that has the energy E.
C1_EnergyIsMinusCut ==
  /\ pc = "sample" =>
       /\ Variables(Q) = 1..5
       /\ \A x \in Assignments(Q) :
            /\ Energy(Q, x) = -CutCount(G, x)
            /\ CutSizeOf(Energy(Q, x)) = CutCount(G, x)
  /\ LET es   == Edges(G)
         rows == PrintedRows
     IN  \A i \in 1..Len(rows) :
           \E j \in 1..Len(response) :
             /\ rows[i].E = response[j].energy
             /\ rows[i].cut = Cardinality(CrossingIn(es, response[j].sample))

\* a row with energy -5 and cut size 5 has been printed
C1_Witness ==
  \E i \in 1..Len(PrintedRows) : PrintedRows[i].E = -5 /\ PrintedRows[i].cut = 5

\* C2: the optimal cut size of the graph is 5: of the 32 assignments none
\* cuts more than 5 of the 6 edges and at least one cuts exactly 5.
C2_OptimalCutIsFive ==
  /\ pc = "plot_graph" =>
       /\ Cardinality(Labelings(G)) = 32
       /\ Len(Edges(G)) = 6
       /\ \A x \in Labelings(G) : CutCount(G, x) <= 5
       /\ \E x \in Labelings(G) : CutCount(G, x) = 5
  /\ pc \in PostInterpret => Len(cut_edges) <= 5 /\ Len(uncut_edges) >= 1

\* the run has ended with a best result that cuts exactly 5 edges
C2_Witness == pc = "done" /\ Len(cut_edges) = 5 /\ Len(uncut_edges) = 1

\* C3: the best result lut has an energy that is at most the energy of every
\* returned sample, and cuts at least as many edges as every returned sample.
C3_BestIsLowest ==
  pc \in PostGrab =>
    LET es      == Edges(G)
        best    == Energy(sentQ, lut)
        bestCut == Cardinality(CrossingIn(es, lut))
    IN  \A i \in 1..Len(response) :
          /\ best <= response[i].energy
          /\ bestCut >= Cardinality(CrossingIn(es, response[i].sample))

\* the best result was grabbed from a response whose first row is not the best
C3_Witness ==
  /\ pc = "interpret"
  /\ Len(response) = 2
  /\ response[2].energy < response[1].energy
  /\ lut = response[2].sample

\* the graph of the notebook: nodes 1..5 and the six edges, each once
GraphAsBuilt ==
  LET es == Edges(G)
  IN  /\ Len(Nodes(G)) = 5
      /\ Range(Nodes(G)) = 1..5
      /\ Len(es) = 6
      /\ {{e[1], e[2]} : e \in Range(es)} =
           {{1,2}, {1,3}, {2,4}, {3,4}, {3,5}, {4,5}}
      /\ \A e \in Range(es) : e[1] # e[2]
      /\ \A n \in 1..5 : Len(G.adj[n]) = Cardinality(Range(G.adj[n]))

\* C4: after construction G has exactly the nodes 1..5 and exactly the six
\* edges, no self-loop, no duplicate edge, and no later step changes G.
C4_GraphFixed ==
  /\ [](pc \notin PreGraph => GraphAsBuilt)
  /\ [][pc \notin PreGraph => G' = G]_vars

\* the run has ended and the graph is the one that was constructed
C4_Witness == pc = "done" /\ G = AddEdgesFrom(EmptyGraph, EdgeList) /\ drawn # <<>>

\* the weight of an edge as the QUBO encodes it: the coupling is 2 * w
EdgeWeight(q, e) == QGet(q, e) \div 2

\* the sum of the weights of the edges crossing the cut x
WeightedCut(q, g, x) ==
  LET es == Edges(g)
      cr == Crossing(g, x)
  IN  SumOver(cr, [i \in cr |-> EdgeWeight(q, es[i])])

Stage(p) ==
  IF p \in {"start", "add_edges", "plot_graph"} THEN 1
  ELSE IF p \in {"init_Q", "q_loop"} THEN 2
  ELSE IF p \in {"sample", "sample_failed"} THEN 3
  ELSE 4

\* q holds the contribution of every edge of g
HasAllEdges(q, g) ==
  LET es == Edges(g)
  IN  /\ \A e \in Range(es) : QGet(q, e) = 2
      /\ \A n \in Range(Nodes(g)) :
           QGet(q, <<n, n>>) =
             -Cardinality({i \in 1..Len(es) : n \in {es[i][1], es[i][2]}})

\* C6: the steps run in one fixed order (graph, Q from all edges, one
\* dispatch, rendering); the sampler never gets a Q that lacks an edge, and
\* no result is printed or drawn before the response has been received.
C6_FixedOrder ==
  /\ [][Stage(pc') \in {Stage(pc), Stage(pc) + 1}]_vars
  /\ [](Stage(pc) >= 2 => Len(Nodes(G)) = 5 /\ Len(Edges(G)) = 6)
  /\ [](Stage(pc) >= 3 => HasAllEdges(Q, G))
  /\ [](calls <= 1)
  /\ [](calls = 1 => sentQ = Q /\ HasAllEdges(sentQ, G))
  /\ [](calls = 1 <=> Stage(pc) = 4 \/ pc = "sample_failed")
  /\ [](printed # <<>> \/ drawn # <<>> \/ saved # <<>> \/ displayed
          => calls = 1 /\ Stage(pc) = 4)

\* the run has ended after one dispatch and the drawing of the result
C6_Witness == pc = "done" /\ calls = 1 /\ Len(drawn) = 5 /\ Len(PrintedRows) = 2

\* the figure holds every node and every edge of the best result
AllDrawn(fig) ==
  /\ Len(fig) = 5
  /\ Range(fig[1].items) \cup Range(fig[2].items) = Range(Nodes(G))
  /\ Range(fig[3].items) \cup Range(fig[4].items) = Range(Edges(G))
  /\ fig[1].items = NodesWith(G, lut, 0)
  /\ fig[2].items = NodesWith(G, lut, 1)
  /\ fig[3].items = CutEdges(G, lut)
  /\ fig[4].items = UncutEdges(G, lut)

\* the message that the plot is saved has been printed
SavedMessagePrinted == \E i \in 1..Len(printed) : printed[i].kind = "saved"

\* C7: whenever the sampler returns a non-empty response the run eventually
\* ends with the result displayed and saved as maxcut_plot.png; the save
\* happens once, after every node and edge of the best result is drawn, and
\* the message is printed only after the save.
C7_EventuallySaved ==
  /\ (pc = "print_header" /\ Len(response) > 0)
        ~> (pc = "done" /\ displayed /\ Len(saved) = 1)
  /\ [](Len(saved) <= 1)
  /\ [](Len(saved) = 1 =>
          saved[1].name = "maxcut_plot.png" /\ AllDrawn(saved[1].content))
  /\ [](SavedMessagePrinted => Len(saved) = 1)
  /\ [](displayed => Len(saved) = 1 /\ SavedMessagePrinted)

\* the run has ended with the picture of a non-empty response saved
C7_Witness ==
  /\ pc = "done"
  /\ Len(response) > 0
  /\ displayed
  /\ Len(saved) = 1
  /\ SavedMessagePrinted

\* the least energy of all assignments
GroundEnergy(q) ==
  CHOOSE m \in {Energy(q, x) : x \in Assignments(q)} :
    \A y \in Assignments(q) : m <= Energy(q, y)

\* the assignments of least energy
Optima(q) == LET m == GroundEnergy(q) IN {x \in Assignments(q) : Energy(q, x) = m}

\* C8: there is more than one optimal assignment even when an assignment and
\* its complement count as one, and flipping the label of node 5 alone in an
\* optimal assignment gives another optimal assignment.
C8_Degenerate ==
  pc = "sample" =>
    LET opt == Optima(Q)
    IN  /\ \E x, y \in opt : y # x /\ y # Complement(x)
        /\ \A x \in opt :
             Flip(x, 5) # x /\ Flip(x, 5) # Complement(x) /\ Flip(x, 5) \in opt

\* two optimal samples that differ in node 5 only have been returned
C8_Witness ==
  /\ pc = "done"
  /\ Len(response) = 2
  /\ response[1].energy = -5
  /\ response[2].energy = -5
  /\ response[2].sample = Flip(response[1].sample, 5)

\* C9: the complement of an assignment has the same energy, the same cut
\* edges and the same uncut edges, with S0 and S1 swapped.
C9_Z2Symmetry ==
  pc = "sample" =>
    \A x \in Assignments(Q) :
      /\ Energy(Q, Complement(x)) = Energy(Q, x)
      /\ CutEdges(G, Complement(x)) = CutEdges(G, x)
      /\ UncutEdges(G, Complement(x)) = UncutEdges(G, x)
      /\ NodesWith(G, Complement(x), 0) = NodesWith(G, x, 1)
      /\ NodesWith(G, Complement(x), 1) = NodesWith(G, x, 0)
      /\ KeysWith(Complement(x), 0) = KeysWith(x, 1)
      /\ KeysWith(Complement(x), 1) = KeysWith(x, 0)

\* a sample and its complement have been returned with the same energy
C9_Witness ==
  /\ pc = "done"
  /\ Len(response) = 2
  /\ response[2].sample = Complement(response[1].sample)
  /\ response[2].energy = response[1].energy
  /\ S1 = NodesWith(G, response[1].sample, 1)

\* the edges of the subgraph with nodes 3-4-5
Triangle == {<<3,4>>, <<3,5>>, <<4,5>>}

\* C10: in every assignment at least one of the edges (3,4), (3,5), (4,5) is
\* uncut, so no assignment cuts all 6 edges of G.
C10_Frustration ==
  /\ pc = "plot_graph" =>
       /\ Triangle \subseteq Range(Edges(G))
       /\ \A x \in Labelings(G) :
            /\ \E e \in Triangle : e \in Range(UncutEdges(G, x))
            /\ Len(CutEdges(G, x)) < Len(Edges(G))
            /\ Len(CutEdges(G, x)) < 6
  /\ pc \in PostInterpret =>
       /\ \E e \in Triangle : e \in Range(uncut_edges)
       /\ Len(cut_edges) < 6

\* the best result that was drawn leaves an edge of the triangle uncut
C10_Witness ==
  /\ pc = "done"
  /\ \E e \in Triangle : e \in Range(uncut_edges)
  /\ Len(cut_edges) = 5

\* the positions in the edge list es of the edges with one endpoint in the
\* list A and the other in the list B
Between(es, A, B) ==
  {j \in 1..Len(es) :
     \/ es[j][1] \in Range(A) /\ es[j][2] \in Range(B)
     \/ es[j][1] \in Range(B) /\ es[j][2] \in Range(A)}

\* C11: in every printed row the Energy and the Cut Size belong to the sample
\* of that row: the rows and the energies advance in lockstep over the same
\* ordering, and the Cut Size is the number of edges of G between the row's
\* Set 0 and Set 1 (looked at while the rows are printed, when the last row
\* has been printed and at the end of the run).
C11_RowsInLockstep ==
  pc \in {"rows", "grab_best", "done"} =>
  LET es   == Edges(G)
      rows == PrintedRows
      srt  == Sorted(response)
  IN  /\ Len(rows) <= Len(response)
      /\ pc = "rows" => energies = li /\ Len(rows) = li - 1
      /\ pc # "rows" => Len(rows) = Len(response)
      /\ \A i \in 1..Len(rows) :
           /\ rows[i].S0 = KeysWith(srt[i].sample, 0)
           /\ rows[i].S1 = KeysWith(srt[i].sample, 1)
           /\ rows[i].E = srt[i].energy
           /\ rows[i].cut = Cardinality(Between(es, rows[i].S0, rows[i].S1))

\* two rows have been printed for a response whose record order is not the
\* order of energy
C11_Witness ==
  /\ pc = "done"
  /\ Len(response) = 2
  /\ response[2].energy < response[1].energy
  /\ Len(PrintedRows) = 2
  /\ PrintedRows[1].cut > PrintedRows[2].cut

\* C12: if the dispatch to the remote sampler fails the run stops at that
\* step: the call is not made again, no result row is printed, no best result
\* is computed and maxcut_plot.png is not written.
C12_FailureStops ==
  /\ [](calls <= 1)
  /\ [](pc = "sample_failed" =>
          /\ calls = 1
          /\ response = <<>>
          /\ printed = <<>>
          /\ lut = <<>>
          /\ cut_edges = <<>> /\ uncut_edges = <<>>
          /\ drawn = <<>>
          /\ saved = <<>>
          /\ ~displayed)
  /\ [][pc # "sample_failed"]_vars
  /\ [][pc = "sample" /\ pc' # "sample_failed" => pc' = "print_header"]_vars

\* the dispatch has failed
C12_Witness == pc = "sample_failed" /\ calls = 1 /\ sentQ = Q /\ qIters = 6

\* the keys whose coefficient differs between q and r
Changed(q, r) ==
  {k \in (DOMAIN q) \cup (DOMAIN r) : QGet(q, k) # QGet(r, k)}

\* C13: the edge loop is a single pass: it ends after exactly |E| = 6
\* iterations, iteration k visits the k-th edge of G and no other, and every
\* iteration updates exactly three coefficients.
C13_SinglePass ==
  /\ [](pc = "q_loop" => ei \in 1..(Len(Edges(G)) + 1) /\ qIters = ei - 1)
  /\ [](qUpdates = 3 * qIters)
  /\ [](pc \notin PreQ =>
          qIters = Len(Edges(G)) /\ qIters = 6 /\ qUpdates = 18 /\ ei = 7)
  /\ [][qIters' # qIters =>
          /\ qIters' = qIters + 1
          /\ ei' = ei + 1
          /\ ei \in 1..Len(Edges(G))
          /\ LET e == Edges(G)[ei]
             IN  /\ Changed(Q, Q') = {<<e[1], e[1]>>, <<e[2], e[2]>>, e}
                 /\ Cardinality(Changed(Q, Q')) = 3]_vars
  /\ [][Q' # Q => qIters' = qIters + 1]_vars
  /\ (pc = "q_loop") ~> (pc = "sample" /\ qIters = 6)

\* the loop has ended after six iterations and eighteen updates
C13_Witness == pc = "sample" /\ qIters = 6 /\ qUpdates = 18 /\ ei = 7

\* the number of edges of g that end in the node n
Degree(g, n) ==
  LET es == Edges(g)
  IN  Cardinality({i \in 1..Len(es) : n \in {es[i][1], es[i][2]}})

\* the entries of Q as the claim lists them
ListedQ ==
  (<<1,1>> :> -2) @@ (<<2,2>> :> -2) @@ (<<3,3>> :> -3) @@ (<<4,4>> :> -3) @@
  (<<5,5>> :> -2) @@
  (<<1,2>> :> 2) @@ (<<1,3>> :> 2) @@ (<<2,4>> :> 2) @@ (<<3,4>> :> 2) @@
  (<<3,5>> :> 2) @@ (<<4,5>> :> 2)

\* C14: when the edge loop has finished Q holds exactly one diagonal entry
\* per node, equal to minus the degree of the node (-2, -2, -3, -3, -2), and
\* one off-diagonal entry equal to 2 per edge in a single orientation.
C14_ExactEntries ==
  /\ pc \notin PreQ =>
       /\ Q = ListedQ
       /\ Cardinality(DOMAIN Q) = 11
       /\ \A k \in DOMAIN Q : k[1] # k[2] => <<k[2], k[1]>> \notin DOMAIN Q
  /\ pc = "sample" =>
       /\ DOMAIN Q = {<<n, n>> : n \in Range(Nodes(G))} \cup Range(Edges(G))
       /\ \A n \in Range(Nodes(G)) : Q[<<n, n>>] = -Degree(G, n)
       /\ \A e \in Range(Edges(G)) : Q[e] = 2

\* the loop has finished with the eleven entries
C14_Witness ==
  pc = "sample" /\ ei = 7 /\ Cardinality(DOMAIN Q) = 11 /\ Q[<<3,3>>] = -3

\* the lists A and B split the set ns: no node twice, none in both, none
\* missing, and a node is in B exactly when x gives it 1
SplitBy(A, B, x, ns) ==
  /\ Len(A) = Cardinality(Range(A))
  /\ Len(B) = Cardinality(Range(B))
  /\ Range(A) \cap Range(B) = {}
  /\ Range(A) \cup Range(B) = ns
  /\ \A n \in ns : (n \in Range(B) <=> x[n] = 1) /\ (n \in Range(A) <=> x[n] = 0)

\* C15: for every lookup table that labels each node of G with 0 or 1, S0 and
\* S1 are a partition of the nodes and a node is in S1 exactly when its label
\* is 1; the same holds for Set 0 and Set 1 of every printed row.
C15_Partition ==
  /\ pc = "plot_graph" =>
       \A x \in Labelings(G) :
         /\ SplitBy(NodesWith(G, x, 0), NodesWith(G, x, 1), x, Range(Nodes(G)))
         /\ SplitBy(KeysWith(x, 0), KeysWith(x, 1), x, Range(Nodes(G)))
  /\ pc \in PostInterpret =>
       /\ SplitBy(S0, S1, lut, Range(Nodes(G)))
       /\ lut[5] = 1 <=> 5 \in Range(S1)
  /\ pc \in {"rows", "grab_best", "done"} =>
       LET rows == PrintedRows
           srt  == Sorted(response)
       IN  \A i \in 1..Len(rows) :
             SplitBy(rows[i].S0, rows[i].S1, srt[i].sample, Range(Nodes(G)))

\* the run has ended with node 5 labelled 1 and in S1, and a row was printed
C15_Witness ==
  /\ pc = "done"
  /\ lut[5] = 1
  /\ 5 \in Range(S1)
  /\ S0 # <<>>
  /\ Len(PrintedRows) = 2

====
